---- MODULE Spec2Model ----
\* Streaming zlib Reader / Writer of src/zlib.go driven over an abstract
\* deflate / inflate engine, a push sink and a pull source.
EXTENDS Integers, Sequences, FiniteSets, TLC

\* ---------------------------------------------------------------- bounds
MaxBuf == 2       \* largest staging-buffer size explored (outBuf / inBuf)
MaxLen == 3       \* most payload bytes handed to the Writer in one run
MaxOps == 4       \* Writer calls explored per run
MaxOut == 2       \* largest caller buffer handed to one Read

\* ---------------------------------------------------------------- zlib status codes
Z_OK == 0
Z_STREAM_END == 1
Z_ERRNO == -1
Z_STREAM_ERROR == -2
Z_DATA_ERROR == -3
Z_MEM_ERROR == -4
Z_BUF_ERROR == -5
Z_VERSION_ERROR == -6

\* flush modes the wrapper hands to deflate
Z_NO_FLUSH == 0
Z_SYNC_FLUSH == 2
Z_FINISH == 4

\* ---------------------------------------------------------------- wire format of the engine
\* payload bytes
Data == {0, 1}
\* one literal byte d
Lit(d) == d + 1
\* the byte d twice (a back-reference of length two)
Run(d) == d + 3
\* flush marker (empty block), end-of-member marker (trailer), member header
SYNC == 5
END == 6
HDR == 7

Min(a, b) == IF a < b THEN a ELSE b

RECURSIVE SeqsUpTo(_)
SeqsUpTo(n) == IF n = 0 THEN {<<>>}
               ELSE LET S == SeqsUpTo(n - 1) IN
                    S \cup {Append(s, d) : s \in {t \in S : Len(t) = n - 1}, d \in Data}

Drop(s, k) == SubSeq(s, k + 1, Len(s))
Take(s, k) == SubSeq(s, 1, k)

\* F applied to the value of v: v is evaluated once, however often F uses it
Bind(v, F(_)) == CHOOSE r \in {F(w) : w \in {v}} : TRUE

\* ---------------------------------------------------------------- Status Translator
zlibReturnCodeToError(r) ==
    IF r = 0 THEN "nil"
    ELSE IF r = Z_ERRNO THEN "errno"
    ELSE IF r = Z_STREAM_END THEN "EOF"
    ELSE IF r = Z_STREAM_ERROR THEN "zlib: stream error"
    ELSE IF r = Z_DATA_ERROR THEN "zlib: data error"
    ELSE IF r = Z_MEM_ERROR THEN "zlib: mem error"
    ELSE IF r = Z_BUF_ERROR THEN "zlib: buf error"
    ELSE IF r = Z_VERSION_ERROR THEN "zlib: version error"
    ELSE "zlib: unknown error"

\* ---------------------------------------------------------------- deflate engine
\* zlib's ordering of flush modes, used to detect a call with nothing to do
RANK(f) == 2 * f - (IF f > 4 THEN 9 ELSE 0)

\* state after deflateInit / deflateReset
zs_deflate_init == [status |-> "INIT", held |-> <<>>, pending |-> <<>>, last_flush |-> -2]

\* codes for everything held (a flush or finish empties the window)
RECURSIVE EncodeAll(_)
EncodeAll(h) ==
    IF Len(h) = 0 THEN <<>>
    ELSE IF Len(h) = 1 THEN <<Lit(h[1])>>
    ELSE IF h[1] = h[2] THEN <<Run(h[1])>> \o EncodeAll(Drop(h, 2))
    ELSE <<Lit(h[1])>> \o EncodeAll(Drop(h, 1))

\* codes the engine emits on its own: it needs two bytes of lookahead
RECURSIVE EncodeFull(_)
EncodeFull(h) ==
    IF Len(h) < 2 THEN [codes |-> <<>>, rest |-> h]
    ELSE LET k == IF h[1] = h[2] THEN 2 ELSE 1
             c == IF h[1] = h[2] THEN Run(h[1]) ELSE Lit(h[1])
             r == EncodeFull(Drop(h, k))
         IN [codes |-> <<c>> \o r.codes, rest |-> r.rest]

\* one deflate(strm, flush) call with `in` as new input and `cap` bytes of output
\* space; the result carries the new engine state, the bytes produced and the status
deflate(s, in, cap, flush) ==
    IF s.status = "FINISH" /\ flush # Z_FINISH
    THEN [zs |-> s, out |-> <<>>, ret |-> Z_STREAM_ERROR]
    ELSE IF cap = 0
    THEN [zs |-> s, out |-> <<>>, ret |-> Z_BUF_ERROR]
    ELSE IF s.pending # <<>> /\ Len(s.pending) >= cap
    THEN \* pending output fills the space: nothing else is done in this call
         [zs |-> [s EXCEPT !.pending = Drop(s.pending, cap),
                           !.held = s.held \o in,
                           !.last_flush = -1],
          out |-> Take(s.pending, cap), ret |-> Z_OK]
    ELSE IF s.pending = <<>> /\ s.status # "INIT" /\ in = <<>>
            /\ RANK(flush) <= RANK(s.last_flush) /\ flush # Z_FINISH
    THEN \* no progress possible
         [zs |-> [s EXCEPT !.last_flush = flush], out |-> <<>>, ret |-> Z_BUF_ERROR]
    ELSE LET hdr == IF s.status = "INIT" THEN <<HDR>> ELSE <<>>
             h == s.held \o in
             enc == EncodeFull(h)
             fresh == IF s.status = "FINISH" THEN <<>>
                      ELSE IF flush = Z_NO_FLUSH THEN enc.codes
                      ELSE IF flush = Z_SYNC_FLUSH THEN EncodeAll(h) \o <<SYNC>>
                      ELSE EncodeAll(h) \o <<END>>
             all == s.pending \o hdr \o fresh
             k == Min(Len(all), cap)
             left == Drop(all, k)
         IN [zs |-> [status |-> IF flush = Z_FINISH THEN "FINISH" ELSE "BUSY",
                     held |-> IF flush = Z_NO_FLUSH /\ s.status # "FINISH"
                              THEN enc.rest ELSE <<>>,
                     pending |-> left,
                     last_flush |-> IF k = cap THEN -1 ELSE flush],
             out |-> Take(all, k),
             ret |-> IF flush = Z_FINISH /\ left = <<>> THEN Z_STREAM_END ELSE Z_OK]

\* the wrappers of zstream.h: run the engine into outBuf, report the space left
zs_deflate(s, in, cap) == deflate(s, in, cap, Z_NO_FLUSH)
zs_deflate_flush(s, cap) == deflate(s, <<>>, cap, Z_SYNC_FLUSH)
zs_deflate_finish(s, cap) == deflate(s, <<>>, cap, Z_FINISH)
zs_deflate_reset(s) == [zs |-> zs_deflate_init, ret |-> Z_OK]

\* ---------------------------------------------------------------- inflate engine
\* state after inflateInit / inflateReset; next_in is the staged input the
\* engine has not consumed yet (avail_in bytes), hold the decoded bytes that
\* found no output space
zs_inflate_init == [mode |-> "HEAD", hold |-> <<>>, next_in |-> <<>>]

RECURSIVE InflateRun(_, _, _)
InflateRun(s, cap, out) ==
    IF s.hold # <<>>
    THEN IF cap = 0 THEN [zs |-> s, out |-> out, ret |-> Z_OK]
         ELSE Bind([s EXCEPT !.hold = Tail(@)],
                   LAMBDA s1 : InflateRun(s1, cap - 1, Append(out, Head(s.hold))))
    ELSE IF s.next_in = <<>> THEN [zs |-> s, out |-> out, ret |-> Z_OK]
    ELSE Bind(Head(s.next_in), LAMBDA b :
         Bind([s EXCEPT !.next_in = Tail(@)], LAMBDA s1 :
            IF s.mode = "HEAD"
            THEN IF b = HDR
                 THEN Bind([s1 EXCEPT !.mode = "BODY"], LAMBDA s2 : InflateRun(s2, cap, out))
                 ELSE [zs |-> [s1 EXCEPT !.mode = "BAD"], out |-> out, ret |-> Z_DATA_ERROR]
            ELSE IF b = END
            THEN [zs |-> [s1 EXCEPT !.mode = "DONE"], out |-> out, ret |-> Z_STREAM_END]
            ELSE IF b = SYNC THEN InflateRun(s1, cap, out)
            ELSE IF \E d \in Data : b = Lit(d)
            THEN Bind([s1 EXCEPT !.hold = <<b - 1>>], LAMBDA s2 : InflateRun(s2, cap, out))
            ELSE IF \E d \in Data : b = Run(d)
            THEN Bind([s1 EXCEPT !.hold = <<b - 3, b - 3>>],
                      LAMBDA s2 : InflateRun(s2, cap, out))
            ELSE [zs |-> [s1 EXCEPT !.mode = "BAD"], out |-> out, ret |-> Z_DATA_ERROR]))

\* one inflate(strm, Z_NO_FLUSH) call with cap bytes of output space
inflate(s, cap) ==
    IF s.mode \in {"ENDED", "BAD", "DONE"}
    THEN [zs |-> s, out |-> <<>>,
          ret |-> IF s.mode = "BAD" THEN Z_DATA_ERROR
                  ELSE IF s.mode = "DONE" THEN Z_STREAM_END ELSE Z_STREAM_ERROR]
    ELSE Bind(InflateRun(s, cap, <<>>), LAMBDA r :
         IF r.ret = Z_OK /\ r.out = <<>> /\ r.zs.next_in = s.next_in
         THEN [r EXCEPT !.ret = Z_BUF_ERROR]
         ELSE r)

\* the wrappers of zstream.h: new input replaces the staged input only when
\* in_bytes > 0; consumed_input reports avail_in = 0 after the step
zs_inflate(s, in, cap) ==
    Bind(IF Len(in) > 0 THEN [s EXCEPT !.next_in = in] ELSE s, LAMBDA s1 :
    Bind(inflate(s1, cap), LAMBDA r :
       [zs |-> r.zs, out |-> r.out, ret |-> r.ret, inConsumed |-> r.zs.next_in = <<>>]))
zs_inflate_reset(s) ==
    IF s.mode = "ENDED" THEN [zs |-> s, ret |-> Z_STREAM_ERROR]
    ELSE [zs |-> [s EXCEPT !.mode = "HEAD", !.hold = <<>>], ret |-> Z_OK]
zs_inflate_end(s) == [s EXCEPT !.mode = "ENDED", !.hold = <<>>]

\* ---------------------------------------------------------------- state
VARIABLES
    writer,    \* the writer struct: out (bound sink), zs, outBuf (its length), err
    sinks,     \* bytes each sink has accepted so far
    sinkEnv,   \* the sinks' behaviour: pushes seen, the push that fails and how
    wlog,      \* history of the Writer's calls (observation only)
    reader,    \* the reader struct: in (the source), inConsumed, inEOF, zs, inBuf (its length), err
    rlog       \* history of the Reader's calls (observation only)

vars == <<writer, sinks, sinkEnv, wlog, reader, rlog>>

SinkIds == {1, 2}
\* the push at which a sink misbehaves (0: never)
FailPoints == {0, 1, 2, 3}
\* the pull at which the source fails (0: never)
PullFailPoints == {0, 1, 2}
NoCall == [op |-> "none", len |-> 0, n |-> 0, err |-> "nil", calls |-> 0,
           npush |-> 0, prevErr |-> "nil", prevOp |-> "none",
           ret |-> 0, zsSame |-> TRUE, off |-> 0, acc |-> 0, full |-> 0, tail |-> 0]

NoCalls == [produced |-> <<>>, offered |-> <<>>, accepted |-> <<>>, staged |-> <<>>,
            overwritten |-> FALSE, calls |-> 0, npush |-> 0, full |-> 0, ops |-> 0, fed |-> 0,
            last |-> NoCall, poison |-> "nil", written |-> <<>>, closed |-> FALSE,
            sinkOK |-> TRUE, snap |-> [k \in SinkIds |-> 0], resetOver |-> "none",
            resets |-> 0]

\* a Reader that was never built, and its empty history
NoReader == [in |-> [data |-> <<>>, eofWithData |-> FALSE, failAt |-> 0, pulls |-> 0,
                     done |-> FALSE, late |-> FALSE],
             inConsumed |-> TRUE, inEOF |-> FALSE, zs |-> zs_inflate_init,
             inBuf |-> 0, err |-> "none"]
NoRead == [len |-> 0, n |-> 0, err |-> "nil", data |-> <<>>, pulls |-> 0, steps |-> 0,
           prevErr |-> "nil", endSeen |-> FALSE, endWork |-> 0, endGot |-> 0]
NoReads == [delivered |-> <<>>, last |-> NoRead, reads |-> 0, panicked |-> FALSE,
            closed |-> FALSE, closeErr |-> "nil", kind |-> "none", expect |-> <<>>,
            heldOver |-> FALSE, closes |-> 0, closePrev |-> "nil", badPull |-> FALSE,
            ends |-> 0, cut |-> 0, second |-> <<>>]

\* ---------------------------------------------------------------- sink (io.Writer)
\* out.Write(data): accepts all of data, or fails with an error, or accepts one
\* byte less than offered and reports no error
SinkWrite(env, data) ==
    LET k == env.pushes + 1
        fails == env.failAt = k
    IN IF fails /\ env.kind = "error" THEN [n |-> 0, err |-> "sink error"]
       ELSE IF fails /\ env.kind = "short" /\ Len(data) > 0
       THEN [n |-> Len(data) - 1, err |-> "nil"]
       ELSE [n |-> Len(data), err |-> "nil"]

\* ---------------------------------------------------------------- Writer
\* The operators below thread a context c through one call of a method:
\*   c.w the writer struct, c.sinks / c.env the sinks, c.g the history,
\*   c.ret / c.outLen / c.data the locals ret, outLen and outBuf[:nOut],
\*   c.perr the error of the last push, c.n / c.err the values returned.

\* an engine call made by a method: the result r lands in zs and outBuf
Call(c, r) ==
    LET good == r.ret \in {Z_OK, Z_STREAM_END}
    IN [c EXCEPT !.w.zs = r.zs,
                 !.ret = r.ret,
                 !.outLen = c.w.outBuf - Len(r.out),
                 !.data = r.out,
                 !.g.calls = @ + 1,
                 !.g.full = @ + (IF good /\ Len(r.out) = c.w.outBuf THEN 1 ELSE 0),
                 !.g.overwritten = @ \/ c.g.staged # <<>>,
                 !.g.staged = IF good THEN r.out ELSE <<>>,
                 !.g.produced = IF good THEN @ \o r.out ELSE @]

\* push that takes a short count without error for success
push_ignoreShort(c, data) ==
    LET r == SinkWrite(c.env, data)
    IN [c EXCEPT !.sinks[c.w.out] = @ \o Take(data, r.n),
                 !.env.pushes = @ + 1,
                 !.perr = r.err,
                 !.g.npush = @ + 1,
                 !.g.offered = @ \o data,
                 !.g.accepted = @ \o Take(data, r.n),
                 !.g.staged = <<>>,
                 !.g.sinkOK = @ /\ r.err = "nil"]

push(c, data) ==
    LET r == SinkWrite(c.env, data)
        e == IF r.err # "nil" THEN r.err
             ELSE IF r.n < Len(data) THEN "zlib: short write"
             ELSE "nil"
    IN [c EXCEPT !.sinks[c.w.out] = @ \o Take(data, r.n),
                 !.env.pushes = @ + 1,
                 !.perr = e,
                 !.g.npush = @ + 1,
                 !.g.offered = @ \o data,
                 !.g.accepted = @ \o Take(data, r.n),
                 !.g.staged = <<>>,
                 !.g.sinkOK = @ /\ e = "nil"]

Return(c, n, e) == [c EXCEPT !.n = n, !.err = e]

\* Close with the end-of-stream test moved before the push: the bytes of the
\* last round never leave the staging buffer
RECURSIVE writer_Close_endBeforePush(_)
writer_Close_endBeforePush(c) ==
    LET c1 == Call(c, zs_deflate_finish(c.w.zs, c.w.outBuf)) IN
    IF c1.ret # 0 /\ c1.ret # Z_STREAM_END
    THEN Return(c1, 0, zlibReturnCodeToError(c1.ret))
    ELSE IF c1.ret = Z_STREAM_END THEN Return(c1, 0, "nil")
    ELSE LET c2 == push(c1, c1.data) IN
         IF c2.perr # "nil" THEN Return(c2, 0, c2.perr)
         ELSE writer_Close_endBeforePush(c2)

\* Close with a single finish round
writer_Close_oneRound(c) ==
    LET c1 == Call(c, zs_deflate_finish(c.w.zs, c.w.outBuf)) IN
    IF c1.ret # 0 /\ c1.ret # Z_STREAM_END
    THEN Return(c1, 0, zlibReturnCodeToError(c1.ret))
    ELSE LET c2 == push(c1, c1.data) IN
         IF c2.perr # "nil" THEN Return(c2, 0, c2.perr)
         ELSE Return(c2, 0, "nil")

\* the loop of Close
RECURSIVE writer_Close(_)
writer_Close(c) ==
    LET c1 == Call(c, zs_deflate_finish(c.w.zs, c.w.outBuf)) IN
    IF c1.ret # 0 /\ c1.ret # Z_STREAM_END
    THEN Return(c1, 0, zlibReturnCodeToError(c1.ret))
    ELSE LET c2 == push(c1, c1.data) IN
         IF c2.perr # "nil" THEN Return(c2, 0, c2.perr)
         ELSE IF c2.ret = Z_STREAM_END THEN Return(c2, 0, "nil")
         ELSE writer_Close(c2)

\* the drain loop without its push: the engine keeps overwriting the staging buffer
RECURSIVE WriteDrain_noPush(_, _)
WriteDrain_noPush(c, len) ==
    LET c1 == Call(c, zs_deflate(c.w.zs, <<>>, c.w.outBuf)) IN
    IF c1.ret # 0 THEN Return(c1, 0, zlibReturnCodeToError(c1.ret))
    ELSE IF c1.outLen > 0 THEN Return(c1, len, "nil")
    ELSE WriteDrain_noPush(c1, len)

\* the drain loop cut to a single round
WriteDrain_oneRound(c, len) ==
    LET c1 == Call(c, zs_deflate(c.w.zs, <<>>, c.w.outBuf)) IN
    IF c1.ret # 0 THEN Return(c1, 0, zlibReturnCodeToError(c1.ret))
    ELSE LET c2 == push(c1, c1.data) IN
         IF c2.perr # "nil" THEN Return(c2, 0, c2.perr)
         ELSE Return(c2, len, "nil")

\* the second loop of Write: engine calls with no new input
RECURSIVE WriteDrain(_, _)
WriteDrain(c, len) ==
    LET c1 == Call(c, zs_deflate(c.w.zs, <<>>, c.w.outBuf)) IN
    IF c1.ret # 0 THEN Return(c1, 0, zlibReturnCodeToError(c1.ret))
    ELSE LET c2 == push(c1, c1.data) IN
         IF c2.perr # "nil" THEN Return(c2, 0, c2.perr)
         ELSE IF c2.outLen > 0 THEN Return(c2, len, "nil")
         ELSE WriteDrain(c2, len)

\* Write reporting the length it was given also when the push failed, and
\* returning after the first push
writer_Write_lenOnError(c, in) ==
    IF Len(in) = 0 THEN Return(c, 0, "nil")
    ELSE LET c1 == Call(c, zs_deflate(c.w.zs, in, c.w.outBuf)) IN
         IF c1.ret # 0 THEN Return(c1, 0, zlibReturnCodeToError(c1.ret))
         ELSE LET c2 == push(c1, c1.data) IN Return(c2, Len(in), c2.perr)

writer_Write(c, in) ==
    IF Len(in) = 0 THEN Return(c, 0, "nil")
    ELSE LET c1 == Call(c, zs_deflate(c.w.zs, in, c.w.outBuf)) IN
         IF c1.ret # 0 THEN Return(c1, 0, zlibReturnCodeToError(c1.ret))
         ELSE LET c2 == push(c1, c1.data) IN
              IF c2.perr # "nil" THEN Return(c2, 0, c2.perr)
              ELSE IF c2.outLen > 0 THEN Return(c2, Len(in), "nil")
              ELSE WriteDrain(c2, Len(in))

\* Flush treating the engine's no-progress status like any other error
writer_Flush_bufErrFatal(c) ==
    LET c1 == Call(c, zs_deflate_flush(c.w.zs, c.w.outBuf)) IN
    IF c1.ret # 0 THEN Return(c1, 0, zlibReturnCodeToError(c1.ret))
    ELSE LET c2 == push(c1, c1.data) IN
         IF c2.perr # "nil" THEN Return(c2, 0, c2.perr)
         ELSE Return(c2, 0, "nil")

writer_Flush(c) ==
    LET c1 == Call(c, zs_deflate_flush(c.w.zs, c.w.outBuf)) IN
    IF c1.ret = Z_BUF_ERROR THEN Return(c1, 0, "nil")
    ELSE IF c1.ret # 0 THEN Return(c1, 0, zlibReturnCodeToError(c1.ret))
    ELSE LET c2 == push(c1, c1.data) IN
         IF c2.perr # "nil" THEN Return(c2, 0, c2.perr)
         ELSE Return(c2, 0, "nil")

\* Reset that rebinds the sink and leaves the engine as it was
writer_Reset_keepEngine(c, w) == Return([c EXCEPT !.w.out = w], 0, "nil")

writer_Reset(c, w) ==
    LET r == zs_deflate_reset(c.w.zs)
        c1 == [c EXCEPT !.w.zs = r.zs, !.ret = r.ret] IN
    IF r.ret # Z_OK THEN Return(c1, 0, zlibReturnCodeToError(r.ret))
    ELSE Return([c1 EXCEPT !.w.out = w], 0, "nil")

\* NewWriterLevel: a writer bound to sink w with a staging buffer of bufSize bytes
NewWriterLevel(w, bufSize) ==
    [out |-> w, zs |-> zs_deflate_init, outBuf |-> bufSize, err |-> "nil"]

\* ---------------------------------------------------------------- Writer calls as steps
Ctx == [w |-> writer, sinks |-> sinks, env |-> sinkEnv,
        g |-> [wlog EXCEPT !.calls = 0, !.npush = 0, !.full = 0],
        ret |-> 0, outLen |-> 0, data |-> <<>>, perr |-> "nil", n |-> 0, err |-> "nil"]

\* what a finished call leaves behind
Commit(c, op, in) ==
    /\ writer' = c.w
    /\ sinks' = c.sinks
    /\ sinkEnv' = c.env
    /\ wlog' = [c.g EXCEPT
            !.ops = @ + 1,
            !.fed = @ + Len(in),
            !.last = [op |-> op, len |-> Len(in), n |-> c.n, err |-> c.err,
                      calls |-> c.g.calls, npush |-> c.g.npush,
                      prevErr |-> wlog.poison, prevOp |-> wlog.last.op,
                      ret |-> c.ret, zsSame |-> c.w.zs = writer.zs,
                      off |-> Len(c.g.offered) - Len(wlog.offered),
                      acc |-> Len(c.g.accepted) - Len(wlog.accepted),
                      full |-> c.g.full, tail |-> Len(c.data)],
            !.poison = IF op = "Reset" /\ c.err = "nil" THEN "nil"
                       ELSE IF @ = "nil" THEN c.err ELSE @,
            !.written = IF op = "Reset" /\ c.err = "nil" THEN <<>>
                        ELSE IF op = "Write" /\ c.err = "nil" THEN @ \o Take(in, c.n)
                        ELSE @,
            !.closed = IF op = "Reset" /\ c.err = "nil" THEN FALSE
                       ELSE @ \/ (op = "Close" /\ c.err = "nil"),
            !.sinkOK = IF op = "Reset" /\ c.err = "nil" THEN TRUE ELSE @,
            !.snap = IF op = "Reset" /\ c.err = "nil"
                     THEN [k \in SinkIds |-> Len(sinks[k])] ELSE @,
            !.resetOver = IF op = "Reset" /\ c.err = "nil"
                          THEN (IF writer.zs.status = "FINISH" THEN "closed"
                                ELSE IF writer.zs.held # <<>> \/ writer.zs.pending # <<>>
                                THEN "unflushed"
                                ELSE IF wlog.last.op = "Flush" THEN "flushed" ELSE "other")
                          ELSE @,
            !.resets = IF op = "Reset" /\ c.err = "nil" THEN @ + 1 ELSE @]
    /\ UNCHANGED <<reader, rlog>>

Write ==
    /\ wlog.ops < MaxOps
    /\ \E in \in SeqsUpTo(MaxLen - wlog.fed) :
          Commit(writer_Write(Ctx, in), "Write", in)

Flush ==
    /\ wlog.ops < MaxOps
    /\ Commit(writer_Flush(Ctx), "Flush", <<>>)

Close ==
    /\ wlog.ops < MaxOps
    /\ Commit(writer_Close(Ctx), "Close", <<>>)

Reset ==
    /\ wlog.ops < MaxOps
    /\ \E w \in SinkIds : Commit(writer_Reset(Ctx, w), "Reset", <<>>)

Init ==
    /\ \E b \in 1..MaxBuf : writer = NewWriterLevel(1, b)
    /\ sinks = [k \in SinkIds |-> <<>>]
    /\ \E f \in FailPoints, kd \in {"error", "short"} :
          /\ (f = 0 => kd = "error")
          /\ sinkEnv = [pushes |-> 0, failAt |-> f, kind |-> kd]
    /\ wlog = NoCalls
    /\ reader = NoReader
    /\ rlog = NoReads

Next == Write \/ Flush \/ Close \/ Reset

\* ---------------------------------------------------------------- source (io.Reader)
\* in.Read(inBuf): up to plen bytes; exhaustion is reported with the last bytes
\* (eofWithData) or by a later empty read; pull number failAt fails instead;
\* done: exhaustion was signalled, late: a pull came after that
SourceRead(src, plen) ==
    Bind([src EXCEPT !.pulls = @ + 1, !.late = @ \/ src.done], LAMBDA s1 :
    Bind(Min(plen, Len(src.data)), LAMBDA n :
       IF src.failAt = s1.pulls
       THEN [src |-> s1, data |-> <<>>, err |-> "source error"]
       ELSE IF src.data = <<>>
       THEN [src |-> [s1 EXCEPT !.done = TRUE], data |-> <<>>, err |-> "EOF"]
       ELSE IF src.eofWithData /\ n > 0 /\ n = Len(src.data)
       THEN [src |-> [s1 EXCEPT !.data = <<>>, !.done = TRUE],
             data |-> src.data, err |-> "EOF"]
       ELSE [src |-> [s1 EXCEPT !.data = Drop(@, n)],
             data |-> Take(src.data, n), err |-> "nil"]))

\* ---------------------------------------------------------------- Reader
\* The operators below thread a context c through one call of Read:
\*   c.z the reader struct, c.out the space left in the caller's buffer,
\*   c.got the bytes written to it, c.pulls / c.steps / c.endSeen / c.panic
\*   what the call did (observation only).

RECURSIVE ReadLoop(_)

\* the bookkeeping with inConsumed forced to true: every step is followed by a pull
AfterInflate_alwaysConsumed(c, r) ==
    Bind([c EXCEPT !.z.zs = r.zs, !.z.inConsumed = TRUE, !.steps = @ + 1,
                   !.heldOver = @ \/ (r.zs.hold # <<>> /\ r.inConsumed)], LAMBDA c1 :
       IF r.ret # Z_STREAM_END /\ r.ret # Z_OK
       THEN [c1 EXCEPT !.z.err = zlibReturnCodeToError(r.ret)]
       ELSE Bind([c1 EXCEPT !.out = @ - Len(r.out), !.got = @ \o r.out], LAMBDA c2 :
            IF r.ret = Z_STREAM_END
            THEN [c2 EXCEPT !.z.zs = zs_inflate_reset(c2.z.zs).zs, !.endSeen = TRUE]
            ELSE ReadLoop(c2)))

\* the bookkeeping with the end of a member recorded as the terminal condition
AfterInflate_eofAtEnd(c, r) ==
    Bind([c EXCEPT !.z.zs = r.zs, !.z.inConsumed = r.inConsumed, !.steps = @ + 1,
                   !.heldOver = @ \/ (r.zs.hold # <<>> /\ r.inConsumed),
                   !.out = @ - Len(r.out), !.got = @ \o r.out], LAMBDA c1 :
       IF r.ret # Z_OK
       THEN [c1 EXCEPT !.z.err = zlibReturnCodeToError(r.ret)]
       ELSE ReadLoop(c1))

\* the bookkeeping with the loop going on after the end of a member
AfterInflate_goOnAfterEnd(c, r) ==
    Bind([c EXCEPT !.z.zs = r.zs, !.z.inConsumed = r.inConsumed, !.steps = @ + 1,
                   !.heldOver = @ \/ (r.zs.hold # <<>> /\ r.inConsumed)], LAMBDA c1 :
       IF r.ret # Z_STREAM_END /\ r.ret # Z_OK
       THEN [c1 EXCEPT !.z.err = zlibReturnCodeToError(r.ret)]
       ELSE Bind([c1 EXCEPT !.out = @ - Len(r.out), !.got = @ \o r.out], LAMBDA c2 :
            IF r.ret = Z_STREAM_END
            THEN Bind(zs_inflate_reset(c2.z.zs), LAMBDA rs :
                 Bind([c2 EXCEPT !.z.zs = rs.zs, !.endSeen = TRUE,
                                 !.endWork = c2.steps + c2.pulls,
                                 !.endGot = Len(c2.got)], LAMBDA c3 :
                    IF rs.ret # Z_OK
                    THEN [c3 EXCEPT !.z.err = zlibReturnCodeToError(rs.ret)]
                    ELSE ReadLoop(c3)))
            ELSE ReadLoop(c2)))

\* lines 96-109: the bookkeeping after an engine step with result r
AfterInflate(c, r) ==
    Bind([c EXCEPT !.z.zs = r.zs, !.z.inConsumed = r.inConsumed, !.steps = @ + 1,
                   !.heldOver = @ \/ (r.zs.hold # <<>> /\ r.inConsumed)], LAMBDA c1 :
       IF r.ret # Z_STREAM_END /\ r.ret # Z_OK
       THEN [c1 EXCEPT !.z.err = zlibReturnCodeToError(r.ret)]
       ELSE Bind([c1 EXCEPT !.out = @ - Len(r.out), !.got = @ \o r.out], LAMBDA c2 :
            IF r.ret = Z_STREAM_END
            THEN Bind(zs_inflate_reset(c2.z.zs), LAMBDA rs :
                 Bind([c2 EXCEPT !.z.zs = rs.zs, !.endSeen = TRUE,
                                 !.endWork = c2.steps + c2.pulls,
                                 !.endGot = Len(c2.got)], LAMBDA c3 :
                    IF rs.ret # Z_OK
                    THEN [c3 EXCEPT !.z.err = zlibReturnCodeToError(rs.ret)]
                    ELSE c3))
            ELSE ReadLoop(c2)))

\* the loop without the test of z.err: a terminated Reader goes on working
ReadLoop_noErrTest(c) ==
    IF ~(c.out > 0) THEN c
    ELSE IF ~c.z.inConsumed
    THEN Bind(zs_inflate(c.z.zs, <<>>, c.out), LAMBDA r : AfterInflate(c, r))
    ELSE Bind(SourceRead(c.z.in, c.z.inBuf), LAMBDA p :
         Bind([c EXCEPT !.z.in = p.src, !.pulls = @ + 1,
                        !.badPull = @ \/ c.z.zs.next_in # <<>>], LAMBDA c1 :
            IF Len(p.data) = 0 THEN [c1 EXCEPT !.z.err = "EOF", !.z.inEOF = TRUE]
            ELSE Bind(zs_inflate(c1.z.zs, p.data, c1.out), LAMBDA r : AfterInflate(c1, r))))

\* the loop without the test of z.inEOF: an exhausted source is asked again
ReadLoop_noEOFTest(c) ==
    IF ~(c.z.err = "nil" /\ c.out > 0) THEN c
    ELSE IF ~c.z.inConsumed
    THEN Bind(zs_inflate(c.z.zs, <<>>, c.out), LAMBDA r : AfterInflate(c, r))
    ELSE Bind(SourceRead(c.z.in, c.z.inBuf), LAMBDA p :
         Bind([c EXCEPT !.z.in = p.src, !.pulls = @ + 1,
                        !.badPull = @ \/ c.z.zs.next_in # <<>>], LAMBDA c1 :
            IF p.err # "nil" /\ p.err # "EOF" THEN [c1 EXCEPT !.z.err = p.err]
            ELSE Bind([c1 EXCEPT !.z.inEOF = @ \/ p.err = "EOF"], LAMBDA c2 :
                 IF Len(p.data) = 0
                 THEN IF ~c2.z.inEOF THEN [c2 EXCEPT !.panic = TRUE]
                      ELSE [c2 EXCEPT !.z.err = "EOF"]
                 ELSE Bind(zs_inflate(c2.z.zs, p.data, c2.out),
                           LAMBDA r : AfterInflate(c2, r)))))

\* the loop recording a failure of the source as an error of the codec
ReadLoop_mapSourceErr(c) ==
    IF ~(c.z.err = "nil" /\ c.out > 0) THEN c
    ELSE IF ~c.z.inConsumed
    THEN Bind(zs_inflate(c.z.zs, <<>>, c.out), LAMBDA r : AfterInflate(c, r))
    ELSE IF c.z.inEOF THEN [c EXCEPT !.z.err = "EOF"]
    ELSE Bind(SourceRead(c.z.in, c.z.inBuf), LAMBDA p :
         Bind([c EXCEPT !.z.in = p.src, !.pulls = @ + 1,
                        !.badPull = @ \/ c.z.zs.next_in # <<>>], LAMBDA c1 :
            IF p.err # "nil" /\ p.err # "EOF"
            THEN [c1 EXCEPT !.z.err = zlibReturnCodeToError(Z_ERRNO)]
            ELSE Bind([c1 EXCEPT !.z.inEOF = @ \/ p.err = "EOF"], LAMBDA c2 :
                 IF Len(p.data) = 0
                 THEN IF ~c2.z.inEOF THEN [c2 EXCEPT !.panic = TRUE]
                      ELSE [c2 EXCEPT !.z.err = "EOF"]
                 ELSE Bind(zs_inflate(c2.z.zs, p.data, c2.out),
                           LAMBDA r : AfterInflate(c2, r)))))

\* lines 65-110: the loop of Read
ReadLoop(c) ==
    IF ~(c.z.err = "nil" /\ c.out > 0) THEN c
    ELSE IF ~c.z.inConsumed
    THEN Bind(zs_inflate(c.z.zs, <<>>, c.out), LAMBDA r : AfterInflate(c, r))
    ELSE IF c.z.inEOF THEN [c EXCEPT !.z.err = "EOF"]
    ELSE Bind(SourceRead(c.z.in, c.z.inBuf), LAMBDA p :
         Bind([c EXCEPT !.z.in = p.src, !.pulls = @ + 1,
                        !.badPull = @ \/ c.z.zs.next_in # <<>>], LAMBDA c1 :
            IF p.err # "nil" /\ p.err # "EOF" THEN [c1 EXCEPT !.z.err = p.err]
            ELSE Bind([c1 EXCEPT !.z.inEOF = @ \/ p.err = "EOF"], LAMBDA c2 :
                 IF Len(p.data) = 0
                 THEN IF ~c2.z.inEOF THEN [c2 EXCEPT !.panic = TRUE]
                      ELSE [c2 EXCEPT !.z.err = "EOF"]
                 ELSE Bind(zs_inflate(c2.z.zs, p.data, c2.out),
                           LAMBDA r : AfterInflate(c2, r)))))

\* Read(out) with len(out) = len; the call returns (Len(got), z.err)
reader_Read(z, len) ==
    Bind([z |-> z, out |-> len, got |-> <<>>, pulls |-> 0, steps |-> 0,
          endSeen |-> FALSE, endWork |-> 0, endGot |-> 0,
          panic |-> FALSE, heldOver |-> FALSE, badPull |-> FALSE],
         LAMBDA c : ReadLoop(c))

\* Close returning the recorded condition as it is, end-of-stream included
reader_Close_errAsIs(z) == [z |-> [z EXCEPT !.zs = zs_inflate_end(@)], err |-> z.err]

\* Close: the engine is released; clean end-of-stream is no error
reader_Close(z) ==
    [z |-> [z EXCEPT !.zs = zs_inflate_end(@)],
     err |-> IF z.err = "EOF" THEN "nil" ELSE z.err]

\* NewReaderBuffer: a reader over source `in` with a staging buffer of bufSize bytes
NewReaderBuffer(in, bufSize) ==
    [in |-> in, inConsumed |-> TRUE, inEOF |-> FALSE, zs |-> zs_inflate_init,
     inBuf |-> bufSize, err |-> "nil"]

\* ---------------------------------------------------------------- Reader calls as steps
ReadLen(len) ==
    /\ reader.err # "none" /\ ~rlog.panicked
    /\ \E c \in {reader_Read(reader, len)} :
         /\ reader' = c.z
         /\ rlog' = [rlog EXCEPT
                !.delivered = @ \o c.got,
                !.reads = 1,
                !.panicked = c.panic,
                !.heldOver = @ \/ c.heldOver,
                !.badPull = @ \/ c.badPull,
                !.ends = @ + (IF c.endSeen THEN 1 ELSE 0),
                !.last = [len |-> len, n |-> Len(c.got), err |-> c.z.err, data |-> c.got,
                          pulls |-> c.pulls, steps |-> c.steps, prevErr |-> reader.err,
                          endSeen |-> c.endSeen, endWork |-> c.endWork,
                          endGot |-> c.endGot]]
    /\ UNCHANGED <<writer, sinks, sinkEnv, wlog>>

Read == \E len \in 0..MaxOut : ReadLen(len)

\* a Read with a non-empty buffer
ReadSome == \E len \in 1..MaxOut : ReadLen(len)

ReaderClose ==
    /\ reader.err # "none" /\ ~rlog.panicked
    /\ LET r == reader_Close(reader) IN
         /\ reader' = r.z
         /\ rlog' = [rlog EXCEPT !.closed = TRUE, !.closeErr = r.err,
                                 !.closes = Min(@ + 1, 2), !.closePrev = reader.err]
    /\ UNCHANGED <<writer, sinks, sinkEnv, wlog>>

\* ---------------------------------------------------------------- streams for the Reader
\* a context for a Writer over sinks that accept everything
Fresh(bufSize) ==
    [w |-> NewWriterLevel(1, bufSize), sinks |-> [k \in SinkIds |-> <<>>],
     env |-> [pushes |-> 0, failAt |-> 0, kind |-> "error"],
     g |-> NoCalls,
     ret |-> 0, outLen |-> 0, data |-> <<>>, perr |-> "nil", n |-> 0, err |-> "nil"]

\* the sink after Write(B[1..k]), an optional Flush, Write(B[k+1..]) and Close
Compress(B, k, fl, bufSize) ==
    Bind(writer_Write(Fresh(bufSize), Take(B, k)), LAMBDA c1 :
    Bind(IF fl THEN writer_Flush(c1) ELSE c1, LAMBDA c2 :
    Bind(writer_Write(c2, Drop(B, k)), LAMBDA c3 :
    Bind(writer_Close(c3), LAMBDA c4 : c4.sinks[1]))))

\* the streams of all payloads up to n bytes, each with its payload
Members(n) ==
    UNION {{[bytes |-> Compress(B, k, fl, b), payload |-> B] :
               k \in 0..Len(B), fl \in BOOLEAN, b \in 1..MaxBuf} : B \in SeqsUpTo(n)}

\* what the Reader is run on: a whole stream, a stream cut short, a stream with
\* one byte damaged, two members back to back
Sources ==
    {[bytes |-> m.bytes, expect |-> m.payload, kind |-> "whole",
      cut |-> Len(m.payload), second |-> <<>>] : m \in Members(MaxLen)}
    \cup UNION {{[bytes |-> Take(m.bytes, j), expect |-> m.payload, kind |-> "trunc",
                   cut |-> Len(m.payload), second |-> <<>>]
                  : j \in 0..(Len(m.bytes) - 1)} : m \in Members(MaxLen)}
    \cup UNION {{[bytes |-> [m.bytes EXCEPT ![j] = 0], expect |-> m.payload, kind |-> "bad",
                   cut |-> Len(m.payload), second |-> <<>>]
                  : j \in 1..Len(m.bytes)} : m \in Members(MaxLen)}
    \cup {[bytes |-> m1.bytes \o m2.bytes, expect |-> m1.payload \o m2.payload, kind |-> "two",
           cut |-> Len(m1.payload), second |-> m2.bytes]
            : m1 \in Members(1), m2 \in Members(1)}

InitR ==
    /\ writer = NewWriterLevel(1, 1)
    /\ sinks = [k \in SinkIds |-> <<>>]
    /\ sinkEnv = [pushes |-> 0, failAt |-> 0, kind |-> "error"]
    /\ wlog = NoCalls
    /\ \E src \in Sources, b \in 0..MaxBuf, e \in BOOLEAN, f \in PullFailPoints :
          /\ (f # 0 => src.kind = "whole")
          /\ reader = NewReaderBuffer(
                 [data |-> src.bytes, eofWithData |-> e, failAt |-> f, pulls |-> 0,
                  done |-> FALSE, late |-> FALSE], b)
          /\ rlog = [NoReads EXCEPT !.kind = src.kind, !.expect = src.expect,
                                    !.cut = src.cut, !.second = src.second]

NextR == Read \/ ReaderClose

SpecR == InitR /\ [][NextR]_vars

\* a caller that keeps calling Read with a non-empty buffer and never closes,
\* on a Reader with a staging buffer over whole members from a source that
\* ends without failing
InitReadOn ==
    /\ InitR
    /\ rlog.kind \in {"whole", "two"}
    /\ reader.inBuf >= 1
    /\ reader.in.failAt = 0

SpecReadOn == InitReadOn /\ [][Read]_vars /\ WF_vars(ReadSome)

Spec == Init /\ [][Next]_vars

\* a session of either kind: a Writer over its sinks, or a Reader over its source
InitIO == Init \/ InitR
NextIO ==
    \/ reader.err = "none" /\ Next
    \/ reader.err # "none" /\ NextR
SpecIO == InitIO /\ [][NextIO]_vars

\* ---------------------------------------------------------------- properties
IsPrefix(a, b) == Len(a) <= Len(b) /\ SubSeq(b, 1, Len(a)) = a

\* a Reader with a staging buffer, over a source that holds whole members and
\* never fails, not closed by its caller
ValidRun ==
    /\ rlog.kind \in {"whole", "two"}
    /\ reader.inBuf >= 1
    /\ reader.in.failAt = 0
    /\ ~rlog.closed

\* the bytes of a stream decoded in one engine step with room for everything
Decoded(bytes) == inflate([zs_inflate_init EXCEPT !.next_in = bytes], 2 * Len(bytes) + 1)

\* C1: round trip. What the Writer pushed for payload B (any split into two
\* Writes, with or without a Flush between them, any staging-buffer size),
\* read back through a Reader until end-of-stream, is exactly B; on the way the
\* Reader reports no error and has delivered a prefix of B.
C1_RoundTrip ==
    (ValidRun /\ rlog.kind = "whole") =>
        /\ reader.err \in {"nil", "EOF"}
        /\ IsPrefix(rlog.delivered, rlog.expect)
        /\ (reader.err = "EOF" => rlog.delivered = rlog.expect)

\* a payload one byte longer than the largest staging buffer came back whole
C1_Witness ==
    /\ ValidRun /\ rlog.kind = "whole"
    /\ reader.err = "EOF"
    /\ Len(rlog.expect) > MaxBuf
    /\ rlog.delivered = rlog.expect

\* C2: a source exhausted while the engine is inside a member (a truncated
\* stream) never ends in the clean end-of-stream signal.
C2_TruncatedIsFatal ==
    reader.err = "EOF" => reader.zs.mode # "BODY"

\* C3: for every valid stream and every sequence of caller buffer sizes, each
\* Read returns at most len(out) bytes, the bytes returned so far are a prefix
\* of the payload, and at end-of-stream they are the whole payload with nothing
\* left inside the engine.
C3_NoByteLost ==
    ValidRun =>
        /\ rlog.last.n <= rlog.last.len
        /\ IsPrefix(rlog.delivered, rlog.expect)
        /\ (reader.err = "EOF" => rlog.delivered = rlog.expect /\ reader.zs.hold = <<>>)
        /\ (reader.zs.hold # <<>> /\ reader.inConsumed => ~reader.inEOF)

\* the payload came back whole although, at some Read, the engine held output
\* it could not emit while the staged input was used up
C3_Witness ==
    /\ ValidRun
    /\ rlog.heldOver
    /\ reader.err = "EOF"
    /\ rlog.delivered = rlog.expect
    /\ Len(rlog.expect) >= 2

\* C4: after a Write and a successful Flush nothing producible is left inside
\* the engine.
C4_FlushLeavesNothing ==
    (wlog.last.op = "Flush" /\ wlog.last.err = "nil" /\ wlog.last.prevOp = "Write") =>
        (writer.zs.pending = <<>> /\ writer.zs.held = <<>>)

\* C5: a Read that starts with a terminal condition recorded returns 0 bytes
\* and that condition, pulls nothing from the source and steps the engine not
\* once, whatever the buffer.
C5_TerminalIsPermanent ==
    (rlog.reads > 0 /\ rlog.last.prevErr # "nil") =>
        /\ rlog.last.n = 0
        /\ rlog.last.err = rlog.last.prevErr
        /\ reader.err = rlog.last.prevErr
        /\ rlog.last.pulls = 0
        /\ rlog.last.steps = 0

\* a Read with a non-empty buffer on a Reader already at end-of-stream
C5_Witness ==
    /\ rlog.reads > 0
    /\ rlog.last.prevErr = "EOF"
    /\ rlog.last.len > 0
    /\ reader.in.data = <<>>

\* C6: after a Write, Flush or Close returned an error, every later Write,
\* Flush and Close returns that error and makes no engine call and no push.
C6_WriterPoisoned ==
    (wlog.last.prevErr # "nil" /\ wlog.last.op \in {"Write", "Flush", "Close"}) =>
        /\ wlog.last.err = wlog.last.prevErr
        /\ wlog.last.calls = 0
        /\ wlog.last.npush = 0

\* C7: after a successful Reset no sink but the new one grows, and what the
\* new sink received since decodes to a prefix of the data written since; once
\* Close succeeded it is one complete member holding exactly that data.
C7_ResetStartsFresh ==
    wlog.resets > 0 =>
        /\ \A k \in SinkIds : k # writer.out => Len(sinks[k]) = wlog.snap[k]
        /\ wlog.sinkOK =>
             LET d == Decoded(Drop(sinks[writer.out], wlog.snap[writer.out])) IN
             /\ IsPrefix(d.out, wlog.written)
             /\ d.ret \in {Z_OK, Z_STREAM_END, Z_BUF_ERROR}
             /\ wlog.closed =>
                    (d.ret = Z_STREAM_END /\ d.out = wlog.written /\ d.zs.next_in = <<>>)

\* a Reset over unflushed data, then data written and closed
C7_Witness ==
    /\ wlog.resets > 0
    /\ wlog.resetOver = "unflushed"
    /\ wlog.closed /\ wlog.sinkOK
    /\ Len(wlog.written) > 0

\* C8: Write returns (len(data), nil), with nothing of it still waiting for
\* output space inside the engine, or (0, error).
C8_NoPartialWrite ==
    wlog.last.op = "Write" =>
        \/ /\ wlog.last.n = wlog.last.len
           /\ wlog.last.err = "nil"
           /\ (wlog.last.len > 0 => writer.zs.pending = <<>>)
        \/ /\ wlog.last.n = 0
           /\ wlog.last.err # "nil"

\* a Write that failed on its second push, after the sink took the first
C8_Witness ==
    /\ wlog.last.op = "Write"
    /\ wlog.last.err # "nil"
    /\ wlog.last.npush >= 2
    /\ wlog.last.len > 0

\* C9: no engine call overwrites staged bytes that were not pushed, the bytes
\* offered to the sinks are the bytes the engine produced, in order, and while
\* no sink has failed the sinks have accepted exactly those bytes.
C9_ProducedIsPushed ==
    /\ ~wlog.overwritten
    /\ wlog.staged = <<>>
    /\ wlog.offered = wlog.produced
    /\ (sinkEnv.failAt = 0 \/ sinkEnv.pushes < sinkEnv.failAt) =>
           wlog.accepted = wlog.produced

\* a Write whose output took three engine calls and three pushes
C9_Witness ==
    /\ wlog.last.op = "Write"
    /\ wlog.last.err = "nil"
    /\ wlog.last.calls >= 3
    /\ wlog.last.npush >= 3

\* C10: on a valid stream, a caller that keeps reading with a non-empty buffer
\* gets (0, end-of-stream) in the end; no Read before it returns an error, and
\* when it comes the whole payload has been delivered.
C10_ReadsEndInEOF ==
    /\ [](ValidRun =>
            (rlog.last.err # "nil" =>
                /\ rlog.last.err = "EOF"
                /\ rlog.last.n = 0
                /\ rlog.delivered = rlog.expect))
    /\ (ValidRun ~> (rlog.last.err = "EOF" /\ rlog.last.n = 0))

\* the end-of-stream signal after a payload read in pieces smaller than it
C10_Witness ==
    /\ ValidRun
    /\ rlog.last.err = "EOF" /\ rlog.last.n = 0
    /\ Len(rlog.expect) > MaxOut
    /\ rlog.delivered = rlog.expect

\* C11: Close of a Reader returns nil when the recorded condition is
\* end-of-stream or none, and the recorded error otherwise; a second Close
\* answers by the same rule.
C11_ReaderCloseResult ==
    rlog.closes > 0 =>
        rlog.closeErr = (IF rlog.closePrev \in {"EOF", "nil"} THEN "nil" ELSE rlog.closePrev)

\* a second Close after the stream was read to its clean end returned nil
C11_Witness ==
    /\ rlog.closes = 2
    /\ rlog.closePrev = "EOF"
    /\ rlog.closeErr = "nil"
    /\ rlog.delivered = rlog.expect /\ rlog.kind = "whole"

\* C12: after a successful Close and no Reset since, a Write of any data, the
\* empty slice included, returns a stream error, accepts nothing and pushes
\* nothing.
C12_WriteAfterCloseFails ==
    (wlog.last.op = "Write" /\ wlog.closed) =>
        /\ wlog.last.err = "zlib: stream error"
        /\ wlog.last.n = 0
        /\ wlog.last.npush = 0

\* C13: a Flush to which the engine answers BufferError returns nil, pushes
\* nothing and leaves the engine and the sinks as they were, so what follows
\* behaves as if the Flush had not happened; a Write or a Close to which the
\* engine answers BufferError returns it as an error.
C13_FlushNoOp ==
    wlog.last.ret = Z_BUF_ERROR =>
        \/ /\ wlog.last.op = "Flush"
           /\ wlog.last.err = "nil"
           /\ wlog.last.npush = 0 /\ wlog.last.off = 0
           /\ wlog.last.zsSame
        \/ /\ wlog.last.op \in {"Write", "Close"}
           /\ wlog.last.err = "zlib: buf error"

\* a Flush right after a Flush that left nothing pending
C13_Witness ==
    /\ wlog.last.op = "Flush"
    /\ wlog.last.prevOp = "Flush"
    /\ wlog.last.ret = Z_BUF_ERROR
    /\ wlog.last.err = "nil"
    /\ wlog.last.calls = 1

\* C14: no Read pulls from the source while the engine still has staged input
\* to consume, and none pulls after the source signalled exhaustion; a Read
\* that finds staged input unconsumed steps the engine before any pull.
C14_PullDiscipline ==
    /\ ~rlog.badPull
    /\ ~reader.in.late
    /\ (~reader.inConsumed <=> reader.zs.next_in # <<>>)
    /\ (reader.inEOF => reader.in.done)

\* a Read that went on with the staged input alone: the source had signalled
\* exhaustion together with its last bytes
C14_Witness ==
    /\ rlog.last.steps > 0
    /\ rlog.last.pulls = 0
    /\ rlog.last.n > 0
    /\ reader.in.done /\ reader.inEOF
    /\ rlog.kind = "whole"

\* C15: a Read in which the engine reports the end of a member resets the
\* engine in place and returns then and there, with the bytes it has and no
\* error, whatever space is left; over two members back to back the Read that
\* ends the first leaves the Reader at the first byte of the second, staged or
\* still in the source, and the Reads deliver the first payload, then the second.
C15_MemberEnd ==
    (rlog.last.endSeen /\ ~rlog.closed) =>
        /\ rlog.last.err = "nil"
        /\ rlog.last.steps + rlog.last.pulls = rlog.last.endWork
        /\ rlog.last.n = rlog.last.endGot
        /\ reader.zs.mode = "HEAD" /\ reader.zs.hold = <<>>
        /\ (ValidRun /\ rlog.kind = "two" /\ rlog.ends = 1) =>
               /\ rlog.delivered = Take(rlog.expect, rlog.cut)
               /\ reader.zs.next_in \o reader.in.data = rlog.second
        /\ (ValidRun /\ rlog.kind = "two" /\ rlog.ends = 2) =>
               /\ rlog.delivered = rlog.expect
               /\ reader.zs.next_in \o reader.in.data = <<>>

\* the first of two members ended in a Read with space left, the second
\* member already staged
C15_Witness ==
    /\ ValidRun /\ rlog.kind = "two"
    /\ rlog.last.endSeen /\ rlog.ends = 1
    /\ rlog.last.n < rlog.last.len
    /\ rlog.last.n > 0
    /\ reader.zs.next_in # <<>>
    /\ Len(rlog.expect) > rlog.cut

\* C16: once a pull from the source has failed, the Reader's recorded error is
\* that very error, and the Read in which it failed returned it with the bytes
\* it had produced; a Write, Flush or Close in which a push to the sink failed
\* returns the sink's very error.
C16_IOErrorsPassThrough ==
    /\ (reader.in.failAt > 0 /\ reader.in.pulls >= reader.in.failAt) =>
           /\ reader.err = "source error"
           /\ rlog.last.err = "source error"
           /\ rlog.last.n = Len(rlog.last.data)
           /\ IsPrefix(rlog.delivered, rlog.expect)
           /\ (rlog.last.prevErr = "nil" => rlog.last.pulls > 0)
    /\ (/\ sinkEnv.kind = "error" /\ sinkEnv.failAt > 0
        /\ sinkEnv.pushes - wlog.last.npush < sinkEnv.failAt
        /\ sinkEnv.failAt <= sinkEnv.pushes) =>
           /\ wlog.last.op \in {"Write", "Flush", "Close"}
           /\ wlog.last.err = "sink error"

\* a Read that produced bytes and then met the failure of the source
C16_Witness ==
    /\ rlog.last.prevErr = "nil"
    /\ rlog.last.err = "source error"
    /\ rlog.last.n > 0
    /\ rlog.last.pulls >= 2

\* C17: a Write, Flush or Close in which the sink took fewer bytes than
\* offered, without an error, returns the short-write error; that push is its
\* last one, nothing is offered again and no engine call follows it.
C17_ShortWriteIsFatal ==
    (sinkEnv.kind = "short" /\ wlog.last.acc < wlog.last.off) =>
        /\ wlog.last.op \in {"Write", "Flush", "Close"}
        /\ wlog.last.err = "zlib: short write"
        /\ wlog.last.n = 0
        /\ sinkEnv.pushes = sinkEnv.failAt
        /\ wlog.last.calls = wlog.last.npush
        /\ wlog.offered = wlog.produced
        /\ Len(wlog.accepted) = Len(wlog.offered) - 1

\* a Write cut off by a short write on its second push while the engine still
\* had output for further rounds
C17_Witness ==
    /\ sinkEnv.kind = "short"
    /\ wlog.last.op = "Write"
    /\ wlog.last.acc < wlog.last.off
    /\ wlog.last.npush = 2
    /\ writer.zs.pending # <<>>

\* C18: a Write of data on a Writer whose stream was not finished, in which
\* no push failed, returns (len(data), nil); it
\* called the engine once more than the number of calls that filled the
\* staging buffer, pushed after every call, and its last call left space.
C18_DrainLoop ==
    (/\ wlog.last.op = "Write" /\ wlog.last.len > 0
     /\ wlog.last.err \notin {"sink error", "zlib: short write"}
     /\ writer.zs.status # "FINISH") =>
        /\ wlog.last.err = "nil"
        /\ wlog.last.n = wlog.last.len
        /\ wlog.last.calls = wlog.last.full + 1
        /\ wlog.last.npush = wlog.last.calls
        /\ wlog.last.tail < writer.outBuf

\* a Write whose output was twice the staging buffer: the third engine call
\* had no input and nothing pending, and produced nothing
C18_Witness ==
    /\ wlog.last.op = "Write"
    /\ wlog.last.err = "nil"
    /\ wlog.last.full = 2
    /\ wlog.last.calls = 3
    /\ wlog.last.tail = 0
    /\ wlog.last.off = 2 * writer.outBuf

\* C19: a Close in which no push failed ends after finitely many finish
\* rounds, each followed by a push of what it produced; it returns nil only
\* when the last round reported the end of the stream and nothing is left
\* inside the engine, and an error only when the last round reported a status
\* other than Ok and end-of-stream, that status being the error.
C19_CloseDrains ==
    (wlog.last.op = "Close" /\ wlog.last.err \notin {"sink error", "zlib: short write"}) =>
        /\ wlog.last.calls >= 1
        /\ wlog.last.calls <= wlog.last.off + 1
        /\ \/ /\ wlog.last.err = "nil"
              /\ wlog.last.ret = Z_STREAM_END
              /\ wlog.last.npush = wlog.last.calls
              /\ wlog.last.full >= wlog.last.calls - 1
              /\ writer.zs.status = "FINISH"
              /\ writer.zs.pending = <<>> /\ writer.zs.held = <<>>
              /\ wlog.offered = wlog.produced
           \/ /\ wlog.last.err # "nil"
              /\ wlog.last.ret \notin {Z_OK, Z_STREAM_END}
              /\ wlog.last.err = zlibReturnCodeToError(wlog.last.ret)
              /\ wlog.last.npush = wlog.last.calls - 1

\* a Close, after data was written, whose output exceeded the staging buffer:
\* several finish rounds and a push after each
C19_Witness ==
    /\ wlog.last.op = "Close"
    /\ wlog.last.err = "nil"
    /\ wlog.last.calls >= 2
    /\ wlog.last.npush = wlog.last.calls
    /\ wlog.last.off > writer.outBuf
    /\ Len(wlog.written) > 0
    /\ wlog.sinkOK

\* C20: no Read ends in a fault: a pull that yields no bytes and no error is
\* recorded and returned as an error like every other failure.
C20_FailuresAreReturned ==
    rlog.reads > 0 => ~rlog.panicked

====
